---- MODULE Spec2Model ----
(***************************************************************************)
(* A model of libdogecoin's address facade (src/src/address.c): key pair   *)
(* generation and verification, message signing and verification,          *)
(* addressFromPrivkey and the HD derivation entry points.                  *)
(*                                                                         *)
(* The facade is modelled call by call.  The state is the memory a caller  *)
(* holds between calls (its string buffers), the record of the last call   *)
(* (arguments, return value, what the call computed on the way) and the    *)
(* secrets the returning call left behind in its dead stack frame.         *)
(*                                                                         *)
(* Values.  The collaborators of address.c (secp256k1, SHA-256,            *)
(* RIPEMD-160, base58, base64, bip32.c, key.c, utils.c) are not part of    *)
(* the modelled file.  Hashes are modelled as injective constructors, a    *)
(* base58check text as its payload together with its checksum, a base64    *)
(* text as the bytes it carries, an ECDSA signature by the key and digest  *)
(* it was made with.  A private key is one byte (the code's 32, scaled);   *)
(* hexadecimal text is modelled character by character.                    *)
(***************************************************************************)
EXTENDS Integers, Sequences, FiniteSets, TLC

VARIABLES
    ndebug,     \* the build: TRUE when assert() is compiled out (-DNDEBUG)
    draws,      \* number of keys drawn from the RNG so far
    wif,        \* caller's buffer: WIF private key
    addr,       \* caller's buffer: P2PKH address
    genNet,     \* is_testnet of the last generatePrivPubKeypair call
    pairWhole,  \* wif and addr were both written by that one call
    privhex,    \* caller's buffer: private key, hexadecimal
    sig,        \* caller's buffer: signature returned by signmsgwithprivatekey
    signed,     \* the key byte and message that produced sig
    outaddress, \* caller's buffer: extended key written by the HD derivations
    derived_addr, \* caller's buffer: address written by the mnemonic derivation
    hdkey,      \* caller's buffer: HD master key written by the master key generators
    hdaddr,     \* caller's buffer: address written for an HD master key
    hdfrom,     \* the mnemonic, passphrase and network hdkey and hdaddr were made from
    call,       \* the last call: its name, arguments and results
    frame       \* secrets left in the dead stack frame of the last call

\* the buffers of the key pair calls, of the message calls, of the HD calls
keypairVars == <<wif, addr, genNet, pairWhole>>
messageVars == <<privhex, sig, signed>>
hdVars == <<outaddress, derived_addr>>
masterVars == <<hdkey, hdaddr, hdfrom>>

vars == <<ndebug, draws, keypairVars, messageVars, hdVars, masterVars, call, frame>>

-----------------------------------------------------------------------------
(* Bounds of the model.                                                    *)

\* number of distinct valid private scalars, 1..NumKeys
NumKeys == 2
\* RNG draws a run may make
MaxDraws == 2
\* longest message, in bytes
MaxMsgLen == 1

-----------------------------------------------------------------------------
(* Chain parameters (chainparams.c), the values of the wire table.         *)

dogecoin_chainparams_main ==
    [ b58prefix_pubkey_address |-> 30,       \* 0x1E
      b58prefix_secret_address |-> 158,      \* 0x9E
      b58prefix_bip32_privkey  |-> 49988504, \* 0x02FAC398
      b58prefix_bip32_pubkey   |-> 49990397 ] \* 0x02FACAFD

dogecoin_chainparams_test ==
    [ b58prefix_pubkey_address |-> 113,      \* 0x71
      b58prefix_secret_address |-> 241,      \* 0xF1
      b58prefix_bip32_privkey  |-> 70427203, \* 0x0432A243
      b58prefix_bip32_pubkey   |-> 70429096 ] \* 0x0432A9A8

Chains == {dogecoin_chainparams_main, dogecoin_chainparams_test}

\* is_testnet ? &dogecoin_chainparams_test : &dogecoin_chainparams_main
ChainOf(is_testnet) ==
    IF is_testnet THEN dogecoin_chainparams_test ELSE dogecoin_chainparams_main

-----------------------------------------------------------------------------
(* Scalars and keys (key.c, ecc.c).                                        *)

\* the order of the group: the scalars 1..OrderN-1 are the valid private keys
OrderN == NumKeys + 1

\* the values a private-key byte can hold: 0 and OrderN are the invalid ones
KeyBytes == 0..OrderN

ValidKeys == 1..NumKeys

\* dogecoin_privkey_is_valid: not zero and below the group order
dogecoin_privkey_is_valid(k) == k > 0 /\ k < OrderN

\* dogecoin_pubkey_init: a zeroed, invalid public key
NoPub == [t |-> "nopub"]

\* the public key of scalar k
PubOfKey(k) == [t |-> "pub", id |-> [k |-> k]]

\* dogecoin_pubkey_from_key: leaves the zeroed pubkey when the key is invalid
dogecoin_pubkey_from_key(k) ==
    IF dogecoin_privkey_is_valid(k) THEN PubOfKey(k) ELSE NoPub

dogecoin_pubkey_is_valid(pub) == pub.t = "pub"

\* RIPEMD160(SHA256(serialized pubkey))
Hash160(pub) == [h160 |-> pub]

-----------------------------------------------------------------------------
(* Texts.  A C string is NULL, a run of characters, a base58check text or  *)
(* a base64 text.                                                          *)

Null == [t |-> "null"]

Txt(chars) == [t |-> "txt", chars |-> chars]

EmptyStr == Txt(<< >>)

\* first 4 bytes of the double SHA-256 of the payload
Checksum(data) == [of |-> data]

\* dogecoin_base58_encode_check: payload followed by its checksum, in base 58
dogecoin_base58_encode_check(data) ==
    [t |-> "b58", data |-> data, cks |-> Checksum(data)]

\* dogecoin_base58_decode_check succeeds: base58 text whose checksum matches
B58CheckOk(str) == str.t = "b58" /\ str.cks = Checksum(str.data)

\* strlen of a text: a base58check text of 1, 21, 34 or 78 payload bytes has
\* 7, 34, 52 or 111 characters
strlen(str) ==
    CASE str.t = "txt" -> Len(str.chars)
      [] str.t = "b58" -> (CASE str.data.len = 1 -> 7
                             [] str.data.len = 21 -> 34
                             [] str.data.len = 34 -> 52
                             [] OTHER -> 111)
      [] OTHER -> 0

\* dogecoin_pubkey_getaddr_p2pkh: base58check(prefix, hash160(pubkey))
dogecoin_pubkey_getaddr_p2pkh(pub, chain) ==
    dogecoin_base58_encode_check(
        [len |-> 21, prefix |-> chain.b58prefix_pubkey_address, body |-> Hash160(pub)])

\* dogecoin_privkey_encode_wif: base58check(prefix, key, 0x01)
dogecoin_privkey_encode_wif(k, chain) ==
    dogecoin_base58_encode_check(
        [len |-> 34, prefix |-> chain.b58prefix_secret_address,
         body |-> [key |-> k, comp |-> 1]])

\* dogecoin_privkey_decode_wif: the key a WIF text decodes to on a chain; on any
\* failure (NULL, shorter than 50 characters, bad checksum, other chain's
\* prefix) the key is left as dogecoin_privkey_init made it, zero
dogecoin_privkey_decode_wif(str, chain) ==
    IF /\ str.t = "b58"
       /\ strlen(str) >= 50
       /\ B58CheckOk(str)
       /\ str.data.len = 34
       /\ str.data.prefix = chain.b58prefix_secret_address
    THEN str.data.body.key
    ELSE 0

-----------------------------------------------------------------------------
(* What a caller may pass.                                                 *)

\* the other chain's secret prefix
OtherSecretPrefix(p) ==
    IF p = dogecoin_chainparams_main.b58prefix_secret_address
    THEN dogecoin_chainparams_test.b58prefix_secret_address
    ELSE dogecoin_chainparams_main.b58prefix_secret_address

\* WIF payloads that differ from a given text's payload in one field: the
\* prefix byte, the key, the compression flag
WifVariants(str) ==
    { [str.data EXCEPT !.prefix = OtherSecretPrefix(str.data.prefix)],
      [str.data EXCEPT !.body.comp = 1 - str.data.body.comp] }
    \cup { [str.data EXCEPT !.body.key = k] : k \in KeyBytes \ {str.data.body.key} }

\* a WIF text with one character changed: the payload or the checksum it
\* decodes to has changed, and the two no longer agree
FlipChar(str) ==
    IF str.t # "b58" \/ str.data.len # 34 THEN {}
    ELSE { [str EXCEPT !.data = d] : d \in WifVariants(str) }
         \cup { [str EXCEPT !.cks = Checksum(d)] : d \in WifVariants(str) }

\* every well-formed WIF text
AllWifs == { dogecoin_privkey_encode_wif(k, c) : k \in KeyBytes, c \in Chains }

\* every well-formed P2PKH address of a valid key
AllAddrs ==
    { dogecoin_pubkey_getaddr_p2pkh(PubOfKey(k), c) : k \in ValidKeys, c \in Chains }

\* a text too short to be an address
ShortTxt == Txt(<<"D">>)

-----------------------------------------------------------------------------
(* The dead frame: what a call leaves on the stack when it returns.        *)

\* nothing secret left: every secret was overwritten with zeros
CleanFrame == [key |-> 0, wifcopy |-> EmptyStr, seed |-> 0, node |-> 0]

-----------------------------------------------------------------------------
(* The caller.  It makes one call at a time and looks at what came back    *)
(* before it goes on.                                                      *)

NoCall == [op |-> "none", ret |-> "none"]

\* the master key buffers were not filled from a mnemonic
NoSource == [mnemonic |-> Null, pass |-> Null, is_testnet |-> FALSE]

\* the caller is between two calls
Idle == call = NoCall

\* the caller goes on: it drops the record of the call it has examined, and
\* its own frames overwrite the dead frame of the callee
Resume ==
    /\ ~Idle
    /\ call' = NoCall
    /\ frame' = CleanFrame
    /\ UNCHANGED <<ndebug, draws, keypairVars, messageVars, hdVars, masterVars>>

-----------------------------------------------------------------------------
(* generatePrivPubKeypair, address.c 67-117                                *)

\* the texts the call computes from the key the RNG produced
generatePrivPubKeypair(k, is_testnet) ==
    LET chain == ChainOf(is_testnet)
        pubkey == dogecoin_pubkey_from_key(k)
    IN  [ wif_privkey_internal  |-> dogecoin_privkey_encode_wif(k, chain),
          p2pkh_pubkey_internal |-> dogecoin_pubkey_getaddr_p2pkh(pubkey, chain),
          ret |-> "true",
          \* dogecoin_mem_zero of both internal texts, cleanse of key and pubkey
          frame |-> CleanFrame ]

GeneratePrivPubKeypair ==
    /\ Idle
    /\ draws < MaxDraws
    /\ \E k \in ValidKeys, is_testnet \in BOOLEAN, wantWif \in BOOLEAN, wantAddr \in BOOLEAN :
         LET r == generatePrivPubKeypair(k, is_testnet) IN
         /\ draws' = draws + 1
         /\ wif' = IF wantWif THEN r.wif_privkey_internal ELSE wif
         /\ addr' = IF wantAddr THEN r.p2pkh_pubkey_internal ELSE addr
         /\ genNet' = is_testnet
         /\ pairWhole' = (wantWif /\ wantAddr)
         /\ call' = [op |-> "generatePrivPubKeypair", is_testnet |-> is_testnet,
                     wif_null |-> ~wantWif, addr_null |-> ~wantAddr, ret |-> r.ret]
         /\ frame' = r.frame
    /\ UNCHANGED <<ndebug, messageVars, hdVars, masterVars>>

-----------------------------------------------------------------------------
(* verifyPrivPubKeypair, address.c 221-257                                 *)

\* line 247 with the comparison left out
KeypairAddrEqual_always(p2pkh_pubkey, new_p2pkh_pubkey) == TRUE

\* line 247: strcmp(p2pkh_pubkey, new_p2pkh_pubkey) is zero
KeypairAddrEqual(p2pkh_pubkey, new_p2pkh_pubkey) == p2pkh_pubkey = new_p2pkh_pubkey

\* the body of the function on a chosen chain
VerifyKeypairOn(chain, wif_privkey, p2pkh_pubkey) ==
    IF wif_privkey = Null \/ p2pkh_pubkey = Null
    THEN [ret |-> "false", frame |-> CleanFrame]
    ELSE
      LET key == dogecoin_privkey_decode_wif(wif_privkey, chain)
          new_wif_privkey == dogecoin_privkey_encode_wif(key, chain)
          pubkey == dogecoin_pubkey_from_key(key)
          new_p2pkh_pubkey == dogecoin_pubkey_getaddr_p2pkh(pubkey, chain)
      IN
      IF ~dogecoin_privkey_is_valid(key)
      THEN \* line 232: returns with key as decoded
           [ret |-> "false", frame |-> [CleanFrame EXCEPT !.key = key]]
      ELSE IF ~dogecoin_pubkey_is_valid(pubkey)
      THEN \* line 242: returns with key and new_wif_privkey in the frame
           [ret |-> "false",
            frame |-> [CleanFrame EXCEPT !.key = key, !.wifcopy = new_wif_privkey]]
      ELSE IF ~KeypairAddrEqual(p2pkh_pubkey, new_p2pkh_pubkey)
      THEN \* lines 247-251: frees the address, returns without cleansing
           [ret |-> "false",
            frame |-> [CleanFrame EXCEPT !.key = key, !.wifcopy = new_wif_privkey]]
      ELSE \* lines 253-256: key and pubkey cleansed, new_wif_privkey is not
           [ret |-> "true", frame |-> [CleanFrame EXCEPT !.wifcopy = new_wif_privkey]]

\* a variant that ignores is_testnet and always verifies on the main chain
verifyPrivPubKeypair_mainOnly(wif_privkey, p2pkh_pubkey, is_testnet) ==
    VerifyKeypairOn(dogecoin_chainparams_main, wif_privkey, p2pkh_pubkey)

verifyPrivPubKeypair(wif_privkey, p2pkh_pubkey, is_testnet) ==
    VerifyKeypairOn(ChainOf(is_testnet), wif_privkey, p2pkh_pubkey)

\* the WIF arguments a caller holding wif can pass
WifArgs == {Null, wif, addr} \cup FlipChar(wif) \cup AllWifs

\* the address arguments a caller holding addr can pass
AddrArgs == {Null, addr, ShortTxt} \cup AllAddrs

VerifyPrivPubKeypair ==
    /\ Idle
    /\ \E w \in WifArgs, a \in AddrArgs, is_testnet \in BOOLEAN :
         LET r == verifyPrivPubKeypair(w, a, is_testnet) IN
         /\ call' = [op |-> "verifyPrivPubKeypair", wif_privkey |-> w,
                     p2pkh_pubkey |-> a, is_testnet |-> is_testnet, ret |-> r.ret]
         /\ frame' = r.frame
    /\ UNCHANGED <<ndebug, draws, keypairVars, messageVars, hdVars, masterVars>>

-----------------------------------------------------------------------------
(* Hexadecimal text (utils.c) and the copy into dogecoin_key.privkey.      *)

\* bytes of a private key
DOGECOIN_ECKEY_PKEY_LENGTH == 32

\* utils_bin_to_hex of the 32 bytes of scalar k: 64 hexadecimal digits
Hex(k) == [t |-> "hex", val |-> k]

\* characters of a text that holds a private key, a message or a signature
keylen(str) ==
    CASE str.t = "hex" -> 2 * DOGECOIN_ECKEY_PKEY_LENGTH
      [] OTHER -> strlen(str)

\* utils_hex_to_uint8 followed by memcpy of n bytes into the zeroed key: the
\* scalars the key can hold afterwards.  Hexadecimal digits give their value;
\* a character that is no digit counts as the digit 0, so what a base58 text
\* leaves depends on its characters: any scalar.  Other texts leave zero.
HexToKey(str, n) ==
    IF n = 0 THEN {0}
    ELSE CASE str.t = "hex" -> {str.val}
           [] str.t = "b58" -> KeyBytes
           [] OTHER -> {0}

-----------------------------------------------------------------------------
(* Message digest and ECDSA (hash.h, key.c, ecc.c).                        *)

\* the bytes a message may be made of: "o" and "O" differ in one bit
MsgChars == {"o", "O"}

RECURSIVE SeqsUpTo(_, _)
\* all sequences over S of length at most n
SeqsUpTo(S, n) ==
    IF n = 0 THEN {<< >>}
    ELSE LET shorter == SeqsUpTo(S, n - 1)
         IN  shorter \cup { Append(q, c) : q \in { x \in shorter : Len(x) = n - 1 }, c \in S }

Msgs == { Txt(m) : m \in SeqsUpTo(MsgChars, MaxMsgLen) }

\* dogecoin_dblhash: SHA256(SHA256(bytes))
dogecoin_dblhash(bytes) == [dblhash |-> bytes]

Digests == { dogecoin_dblhash(m.chars) : m \in Msgs }

\* the signature (r, s) that key k makes over digest h; hs: s replaced by n - s
EcdsaSig(k, h, hs) == [k |-> k, h |-> h, hs |-> hs]

\* the recovery id of the signature of h under k: the parity of the nonce
\* point, fixed by k and h (RFC 6979) and about as often 1 as 0
RecidOf(k, h) == (k + Len(h.dblhash)) % 2

\* the recovery id under which a signature gives back its signer's key
\* (negating s flips it)
EffRecid(es) == IF es.hs THEN 1 - RecidOf(es.k, es.h) ELSE RecidOf(es.k, es.h)

\* the public key recovery yields when it is not the signer's
JunkPub(es, h, recid) == [t |-> "pub", id |-> [sig |-> es, h |-> h, recid |-> recid]]

\* dogecoin_key_sign_recover_pubkey: the key under which (r, s) is a signature
\* of h with the given recovery id; none for an (r, s) no key made (k = 0)
dogecoin_key_sign_recover_pubkey(es, h, recid) ==
    IF es.k = 0 THEN NoPub
    ELSE IF es.h = h /\ recid = EffRecid(es) THEN PubOfKey(es.k)
    ELSE JunkPub(es, h, recid)

\* dogecoin_pubkey_verify_sig: (r, s) with low s verifies under exactly the
\* keys recovery yields
dogecoin_pubkey_verify_sig(pub, h, es) ==
    /\ ~es.hs
    /\ pub.t = "pub"
    /\ \E recid \in {0, 1} : pub = dogecoin_key_sign_recover_pubkey(es, h, recid)

\* dogecoin_key_sign_hash: the DER encoding of (r, s), 70 to 72 bytes
dogecoin_key_sign_hash(k, h) == [fmt |-> "der", es |-> EcdsaSig(k, h, FALSE), header |-> 0]

\* a 65-byte recoverable signature: header byte, r, s
Compact65(header, es) == [fmt |-> "compact65", es |-> es, header |-> header]

\* bytes that are no signature encoding
NoSigBytes == [fmt |-> "none", es |-> EcdsaSig(0, dogecoin_dblhash(<< >>), FALSE), header |-> 0]

\* b64_encode
b64_encode(bytes) == [t |-> "b64", data |-> bytes]

\* b64_decode succeeds: NULL and texts that are not base64 fail
B64Ok(str) == str.t = "b64"

\* dogecoin_ecc_der_to_compact succeeds: the bytes parse as DER
DerOk(bytes) == bytes.fmt = "der"

-----------------------------------------------------------------------------
(* signmsgwithprivatekey, address.c 593-645                                *)

\* lines 602-604 and 670-672: the digest both functions sign and verify
MessageDigest_magic(msg) ==
    dogecoin_dblhash(<<"\\x19", "Dogecoin Signed Message:\\n", ToString(Len(msg.chars))>> \o msg.chars)

MessageDigest(msg) == dogecoin_dblhash(msg.chars)

\* line 642: what is encoded is sig, the DER signature of line 628; sigcmp and
\* recid of line 635 are dropped
SignOutput(der, es, recid) == b64_encode(der)

\* the call once both arguments are present; overflow: what the build makes of
\* a copy that runs past key.privkey (line 611)
signmsgwithprivatekey(privkey, msg, key, overflow) ==
    LET msgBytes == MessageDigest(msg)
        n == keylen(privkey) \div 2 + 1
        pubkey == dogecoin_pubkey_from_key(key)
        sigder == dogecoin_key_sign_hash(key, msgBytes)
        recid == RecidOf(key, msgBytes)
        base == [ret |-> "null", out |-> Null, digest |-> msgBytes, recid |-> 0,
                 frame |-> CleanFrame]
    IN
    IF n > DOGECOIN_ECKEY_PKEY_LENGTH /\ overflow = "abort"
    THEN [base EXCEPT !.ret = "abort", !.frame = [CleanFrame EXCEPT !.key = key]]
    ELSE IF ~dogecoin_privkey_is_valid(key) /\ ~ndebug
    THEN \* line 613: assert(ret == 1)
         [base EXCEPT !.ret = "abort", !.frame = [CleanFrame EXCEPT !.key = key]]
    ELSE IF ~dogecoin_pubkey_is_valid(pubkey)
    THEN \* line 623: return 0 with the key in place
         [base EXCEPT !.frame = [CleanFrame EXCEPT !.key = key]]
    ELSE \* lines 628-644: key and pubkey cleansed at 637-638
         [base EXCEPT !.ret = "ptr", !.recid = recid,
                      !.out = SignOutput(sigder, sigder.es, recid)]

\* what a caller passes as the private key
PrivArgs == {Null, wif} \cup { Hex(k) : k \in KeyBytes }

MsgArgs == {Null} \cup Msgs

SignMsgWithPrivateKey ==
    /\ Idle
    /\ \E privkey \in PrivArgs, msg \in MsgArgs :
         IF privkey = Null \/ msg = Null
         THEN \* line 594
              /\ call' = [op |-> "signmsgwithprivatekey", privkey |-> privkey, msg |-> msg,
                          ret |-> "null", out |-> Null]
              /\ frame' = CleanFrame
              /\ UNCHANGED <<sig, signed>>
         ELSE \E key \in HexToKey(privkey, keylen(privkey) \div 2 + 1),
                 overflow \in {"benign", "abort"} :
              LET r == signmsgwithprivatekey(privkey, msg, key, overflow) IN
              /\ call' = [op |-> "signmsgwithprivatekey", privkey |-> privkey, msg |-> msg,
                          ret |-> r.ret, out |-> r.out, digest |-> r.digest,
                          recid |-> r.recid, key |-> key]
              /\ frame' = r.frame
              /\ sig' = IF r.ret = "ptr" THEN r.out ELSE sig
              /\ signed' = IF r.ret = "ptr" THEN [key |-> key, msg |-> msg.chars] ELSE signed
    /\ UNCHANGED <<ndebug, draws, keypairVars, privhex, hdVars, masterVars>>

-----------------------------------------------------------------------------
(* verifymessage, address.c 657-717                                        *)

\* characters of a P2PKH address, and of the buffers address.c keeps one in
P2PKH_ADDR_STRINGLEN == 35

\* line 658: !(address || sig || msg), true only when all three are NULL
VerifyMissingInput(address, sigtxt, msg) ==
    ~(address # Null \/ sigtxt # Null \/ msg # Null)

\* line 690: the recovery id handed to recovery is the local recid, still 0
VerifyRecid == 0

\* line 713: strncmp(p2pkh_address, address, 35) is zero; a derived address and
\* its terminator fit in 35 characters, so this is equality of the two texts
VerifyAddrEqual_never(p2pkh_address, address) == TRUE

VerifyAddrEqual(p2pkh_address, address) == p2pkh_address = address

\* the call from line 660 on.  msgread: the text strlen(msg) and the hash find
\* at msg (msg itself unless it is NULL); heap: what the build makes of writing
\* the derived address past a buffer of strlen(address) + 1 bytes (line 705)
verifymessage(address, sigtxt, msgread, heap) ==
    LET out == sigtxt.data
        messageBytes == MessageDigest(msgread)
        pub_key == dogecoin_key_sign_recover_pubkey(out.es, messageBytes, VerifyRecid)
        p2pkh_address == dogecoin_pubkey_getaddr_p2pkh(pub_key, dogecoin_chainparams_main)
        base == [ret |-> "false", step |-> "b64_decode", digest |-> dogecoin_dblhash(<< >>),
                 hashed |-> FALSE]
        hashed == [base EXCEPT !.digest = messageBytes, !.hashed = TRUE]
    IN
    IF ~B64Ok(sigtxt) THEN base
    ELSE IF ~DerOk(out) THEN [hashed EXCEPT !.step = "der_to_compact"]
    ELSE IF ~dogecoin_pubkey_is_valid(pub_key) THEN [hashed EXCEPT !.step = "recover"]
    ELSE IF ~dogecoin_pubkey_verify_sig(pub_key, messageBytes, out.es)
    THEN [hashed EXCEPT !.step = "verify_sig"]
    ELSE IF address = Null
    THEN \* line 704: strlen(NULL)
         [hashed EXCEPT !.ret = "segv", !.step = "strlen(address)"]
    ELSE IF strlen(address) + 1 < P2PKH_ADDR_STRINGLEN /\ heap = "abort"
    THEN [hashed EXCEPT !.ret = "abort", !.step = "getaddr_p2pkh"]
    ELSE [hashed EXCEPT !.step = "strncmp",
                        !.ret = IF VerifyAddrEqual(p2pkh_address, address)
                                THEN "true" ELSE "false"]

\* signature texts a caller may pass: NULL, the one it was given, a text that
\* is not base64, base64 of bytes that are no DER signature, and the DER
\* signatures of every key over every digest, with s or n - s, and of no key
SigArgs ==
    {Null, sig, Txt(<<"!">>), b64_encode(NoSigBytes)}
    \cup { b64_encode([fmt |-> "der", es |-> EcdsaSig(k, h, hs), header |-> 0]) :
             k \in {0} \cup ValidKeys, h \in Digests, hs \in BOOLEAN }
    \cup { b64_encode(Compact65(27 + recid + 4, EcdsaSig(k, h, FALSE))) :
             k \in ValidKeys, h \in Digests, recid \in {0, 1} }

VerifyMessage ==
    /\ Idle
    /\ \E address \in AddrArgs, sigtxt \in SigArgs, msg \in MsgArgs :
         LET args == [op |-> "verifymessage", address |-> address, sig |-> sigtxt, msg |-> msg]
         IN
         IF VerifyMissingInput(address, sigtxt, msg)
         THEN call' = args @@ [ret |-> "false", step |-> "missing input",
                               digest |-> dogecoin_dblhash(<< >>), hashed |-> FALSE]
         ELSE IF msg = Null /\ B64Ok(sigtxt)
         THEN \* line 672: strlen(NULL) traps, or reads what lies at address 0
              \/ call' = args @@ [ret |-> "segv", step |-> "strlen(msg)",
                                  digest |-> dogecoin_dblhash(<< >>), hashed |-> FALSE]
              \/ \E msgread \in Msgs, heap \in {"benign", "abort"} :
                   call' = args @@ verifymessage(address, sigtxt, msgread, heap)
         ELSE \E heap \in {"benign", "abort"} :
                call' = args @@ verifymessage(address, sigtxt, msg, heap)
    /\ frame' = CleanFrame
    /\ UNCHANGED <<ndebug, draws, keypairVars, messageVars, hdVars, masterVars>>

-----------------------------------------------------------------------------
(* addressFromPrivkey, address.c 552-582                                   *)

\* line 553: assert(gen_privatekey(&dogecoin_chainparams_main, privkey, 53, NULL) == 1)
\* the caller's text after it: a build with assertions has gen_privatekey write
\* the WIF of a fresh key over it, a build without them drops the call
PrivkeyAfterGen(privkey, fresh) ==
    IF ndebug THEN privkey
    ELSE dogecoin_privkey_encode_wif(fresh, dogecoin_chainparams_main)

\* the call on a text that is present; key: what line 559 leaves in key.privkey
addressFromPrivkey(privkey, fresh, key) ==
    LET pubkey == dogecoin_pubkey_from_key(key)
        address == dogecoin_pubkey_getaddr_p2pkh(pubkey, dogecoin_chainparams_main)
    IN
    IF ~dogecoin_privkey_is_valid(key) /\ ~ndebug
    THEN \* line 561: assert(dogecoin_privkey_is_valid(&key) == 1)
         [ret |-> "abort", out |-> Null, privkey |-> PrivkeyAfterGen(privkey, fresh),
          frame |-> [CleanFrame EXCEPT !.key = key]]
    ELSE \* lines 579-581: key and pubkey cleansed, the address returned
         [ret |-> "ptr", out |-> address, privkey |-> PrivkeyAfterGen(privkey, fresh),
          frame |-> CleanFrame]

AddressFromPrivkey ==
    /\ Idle
    /\ ndebug \/ draws < MaxDraws
    /\ \E privkey \in PrivArgs :
         IF privkey = Null
         THEN \* gen_privatekey writes through NULL, or line 559 takes strlen(NULL)
              /\ call' = [op |-> "addressFromPrivkey", privkey |-> privkey,
                          ret |-> "segv", out |-> Null]
              /\ frame' = CleanFrame
              /\ UNCHANGED <<privhex, draws>>
         ELSE \E fresh \in ValidKeys :
              \E key \in HexToKey(PrivkeyAfterGen(privkey, fresh),
                                  keylen(PrivkeyAfterGen(privkey, fresh)) \div 2) :
              LET r == addressFromPrivkey(privkey, fresh, key) IN
              /\ call' = [op |-> "addressFromPrivkey", privkey |-> privkey,
                          ret |-> r.ret, out |-> r.out, key |-> key]
              /\ frame' = r.frame
              /\ privhex' = r.privkey
              /\ draws' = IF ndebug THEN draws ELSE draws + 1
    /\ UNCHANGED <<ndebug, keypairVars, sig, signed, hdVars, masterVars>>

-----------------------------------------------------------------------------
(* Hierarchical deterministic keys (bip32.c).                              *)

\* number of distinct chain codes, 0..NumChainCodes-1
NumChainCodes == 2

ChainCodes == 0..(NumChainCodes - 1)

\* a child number: the index and the hardened bit (bit 31)
ChildNum(idx, hard) == [idx |-> idx, hard |-> hard]

\* the four bytes of a fingerprint: zero, or the start of a key's hash160
ZeroFingerprint == [fp |-> [t |-> "zero"]]

Fingerprint(pub) == [fp |-> Hash160(pub)]

\* a dogecoin_hdnode after memset(node, 0, sizeof(dogecoin_hdnode))
ZeroNode ==
    [ depth |-> 0, fingerprint |-> ZeroFingerprint, child_num |-> ChildNum(0, FALSE),
      chain_code |-> 0, private_key |-> 0, public_key |-> NoPub ]

\* what a dogecoin_hdnode declared on the stack and never assigned can hold
UninitNodes ==
    { ZeroNode,
      [ depth |-> 1, fingerprint |-> Fingerprint(PubOfKey(1)), child_num |-> ChildNum(1, TRUE),
        chain_code |-> 1, private_key |-> 1, public_key |-> NoPub ] }

\* dogecoin_hdnode_has_privkey: some byte of private_key is not zero
dogecoin_hdnode_has_privkey(node) == node.private_key # 0

\* dogecoin_hdnode_fill_public_key
dogecoin_hdnode_fill_public_key(node) ==
    [node EXCEPT !.public_key = dogecoin_pubkey_from_key(node.private_key)]

\* the 78 bytes of an extended key: version, depth, fingerprint, child number,
\* chain code, and either the public key or a zero byte and the private key
HDNodeData(node, version, use_public) ==
    [ len |-> 78, prefix |-> version,
      body |-> [ depth |-> node.depth, fingerprint |-> node.fingerprint,
                 child_num |-> node.child_num, chain_code |-> node.chain_code,
                 keydata |-> IF use_public THEN [pub |-> node.public_key]
                             ELSE [lead |-> 0, priv |-> node.private_key] ] ]

dogecoin_hdnode_serialize_public(node, chain) ==
    dogecoin_base58_encode_check(HDNodeData(node, chain.b58prefix_bip32_pubkey, TRUE))

dogecoin_hdnode_serialize_private(node, chain) ==
    dogecoin_base58_encode_check(HDNodeData(node, chain.b58prefix_bip32_privkey, FALSE))

\* dogecoin_hdnode_deserialize: the node is zeroed first; the text must
\* base58check-decode to 78 bytes that start with one of the chain's two magics
dogecoin_hdnode_deserialize(str, chain) ==
    IF ~(B58CheckOk(str) /\ str.data.len = 78)
    THEN [ok |-> FALSE, node |-> ZeroNode]
    ELSE LET d == str.data.body
             read(n) == [n EXCEPT !.depth = d.depth, !.fingerprint = d.fingerprint,
                                  !.child_num = d.child_num, !.chain_code = d.chain_code]
         IN
         IF str.data.prefix = chain.b58prefix_bip32_pubkey
         THEN [ok |-> TRUE,
               node |-> read([ZeroNode EXCEPT !.public_key = d.keydata.pub])]
         ELSE IF str.data.prefix = chain.b58prefix_bip32_privkey
         THEN [ok |-> TRUE,
               node |-> read(dogecoin_hdnode_fill_public_key(
                                 [ZeroNode EXCEPT !.private_key = d.keydata.priv]))]
         ELSE [ok |-> FALSE, node |-> ZeroNode]

\* chain_from_b58_prefix: the chain named by the start of the text; the start
\* of an extended key is the base 58 of its magic; main when none is recognized
chain_from_b58_prefix(str) ==
    IF /\ str.t = "b58"
       /\ str.data.prefix \in { dogecoin_chainparams_test.b58prefix_bip32_privkey,
                                dogecoin_chainparams_test.b58prefix_bip32_pubkey,
                                dogecoin_chainparams_test.b58prefix_pubkey_address }
    THEN dogecoin_chainparams_test
    ELSE dogecoin_chainparams_main

\* HMAC-SHA512(chain code, data) of a derivation step, left half as a scalar
\* and right half as a chain code; keyid stands for the parent key in data
HmacLeft(c, keyid, i, hard) ==
    (c + keyid + (i % OrderN) + (IF hard THEN 1 ELSE 0)) % OrderN

HmacRight(c, keyid, i, hard) ==
    (c + keyid + (i % NumChainCodes) + (IF hard THEN 1 ELSE 0)) % NumChainCodes

\* dogecoin_hdnode_private_ckd: child = parent + I_L mod n, refused when zero
dogecoin_hdnode_private_ckd(node, i, hard) ==
    LET l == HmacLeft(node.chain_code, node.private_key, i, hard)
        child == (node.private_key + l) % OrderN
    IN
    IF child = 0
    THEN [ok |-> FALSE,
          node |-> [node EXCEPT !.fingerprint = Fingerprint(node.public_key),
                                !.chain_code = HmacRight(node.chain_code, node.private_key, i, hard),
                                !.private_key = child]]
    ELSE [ok |-> TRUE,
          node |-> dogecoin_hdnode_fill_public_key(
                     [node EXCEPT !.depth = node.depth + 1,
                                  !.child_num = ChildNum(i, hard),
                                  !.fingerprint = Fingerprint(node.public_key),
                                  !.chain_code = HmacRight(node.chain_code, node.private_key, i, hard),
                                  !.private_key = child])]

\* dogecoin_hdnode_public_ckd: refuses a hardened index and an invalid parent
\* point; child = parent + I_L*G, refused when it is the point at infinity;
\* the private key of the node is zeroed
dogecoin_hdnode_public_ckd(node, i, hard) ==
    IF hard \/ ~dogecoin_pubkey_is_valid(node.public_key)
    THEN [ok |-> FALSE, node |-> node]
    ELSE LET k == node.public_key.id.k
             l == HmacLeft(node.chain_code, k, i, FALSE)
             child == (k + l) % OrderN
             n1 == [node EXCEPT !.fingerprint = Fingerprint(node.public_key),
                                !.chain_code = HmacRight(node.chain_code, k, i, FALSE),
                                !.private_key = 0]
         IN
         IF child = 0 THEN [ok |-> FALSE, node |-> n1]
         ELSE [ok |-> TRUE,
               node |-> [n1 EXCEPT !.depth = node.depth + 1,
                                   !.child_num = ChildNum(i, FALSE),
                                   !.public_key = PubOfKey(child)]]

-----------------------------------------------------------------------------
(* Key paths and dogecoin_hd_generate_key (bip32.c).                       *)

\* one token of a key path: digits, then perhaps a prime mark
Step(idx, prime) == [idx |-> idx, prime |-> prime, ok |-> TRUE]

\* a token with a character that is neither a digit nor a prime mark
BadStep == [idx |-> 0, prime |-> FALSE, ok |-> FALSE]

\* a key path text: what stands before the first token, and the tokens
Path(head, steps) == [t |-> "path", head |-> head, steps |-> steps]

\* number of decimal digits of n
RECURSIVE Digits(_)
Digits(n) == IF n < 10 THEN 1 ELSE 1 + Digits(n \div 10)

\* characters of the tokens and of the slashes between them
RECURSIVE StepsLen(_)
StepsLen(steps) ==
    IF steps = << >> THEN 0
    ELSE Digits(Head(steps).idx) + (IF Head(steps).prime THEN 1 ELSE 0)
         + (IF Len(steps) > 1 THEN 1 ELSE 0) + StepsLen(Tail(steps))

\* strlen of a key path
PathLen(keypath) == (IF keypath.head = "" THEN 0 ELSE 2) + StepsLen(keypath.steps)

\* the token loop of dogecoin_hd_generate_key: a bad character stops it, a
\* prime mark stops it under public derivation, a failed step stops it
RECURSIVE WalkPath(_, _, _)
WalkPath(node, steps, usepubckd) ==
    IF steps = << >> THEN [ok |-> TRUE, node |-> node]
    ELSE LET s == Head(steps) IN
         IF ~s.ok \/ (s.prime /\ usepubckd) THEN [ok |-> FALSE, node |-> node]
         ELSE LET r == IF s.prime THEN dogecoin_hdnode_private_ckd(node, s.idx, TRUE)
                       ELSE IF usepubckd THEN dogecoin_hdnode_public_ckd(node, s.idx, FALSE)
                       ELSE dogecoin_hdnode_private_ckd(node, s.idx, FALSE)
              IN  IF r.ok THEN WalkPath(r.node, Tail(steps), usepubckd) ELSE r

\* dogecoin_hd_generate_key(node, keypath, keymaster, chaincode, usepubckd):
\* node holds whatever it held when the path does not start with "m/";
\* otherwise it restarts from depth 0 with the master's key and chain code
dogecoin_hd_generate_key(node, keypath, master, usepubckd) ==
    IF PathLen(keypath) < 2 \/ keypath.head # "m/"
    THEN [ok |-> FALSE, node |-> node]
    ELSE LET n0 == [node EXCEPT !.depth = 0, !.child_num = ChildNum(0, FALSE),
                                !.fingerprint = ZeroFingerprint,
                                !.chain_code = master.chain_code]
             start == IF usepubckd
                      THEN [n0 EXCEPT !.public_key = master.public_key]
                      ELSE dogecoin_hdnode_fill_public_key(
                               [n0 EXCEPT !.private_key = master.private_key])
         IN  WalkPath(start, keypath.steps, usepubckd)

-----------------------------------------------------------------------------
(* getDerivedHDAddressByPath, address.c 335-360                            *)

\* line 351: bool pubckd = !dogecoin_hdnode_has_privkey(&node)
PubCkd_never(node) == FALSE

PubCkd(node) == ~dogecoin_hdnode_has_privkey(node)

\* lines 357-358 with the private form written whatever outprivkey is
SerializeOut_private(nodenew, chain, outprivkey) ==
    dogecoin_hdnode_serialize_private(nodenew, chain)

\* lines 357-358: the private or the public form of nodenew
SerializeOut(nodenew, chain, outprivkey) ==
    IF outprivkey THEN dogecoin_hdnode_serialize_private(nodenew, chain)
    ELSE dogecoin_hdnode_serialize_public(nodenew, chain)

\* the call with node, the deserialized masterkey, serialized in place of nodenew
getDerivedHDAddressByPath_master(masterkey, derived_path, out, out_null, outprivkey, nodenew) ==
    IF masterkey = Null \/ derived_path = Null \/ out_null
    THEN [ret |-> "false", out |-> out, frame |-> CleanFrame]
    ELSE LET chain == chain_from_b58_prefix(masterkey)
             d == dogecoin_hdnode_deserialize(masterkey, chain)
             g == dogecoin_hd_generate_key(nodenew, derived_path, d.node, PubCkd(d.node))
         IN  [ ret |-> IF d.ok /\ g.ok THEN "true" ELSE "false",
               out |-> SerializeOut(d.node, chain, outprivkey),
               frame |-> [CleanFrame EXCEPT !.node = d.node.private_key] ]

\* the call; nodenew is what the unassigned node on the stack holds; out is
\* the text in outaddress when the call returns
getDerivedHDAddressByPath(masterkey, derived_path, out, out_null, outprivkey, nodenew) ==
    IF masterkey = Null \/ derived_path = Null \/ out_null
    THEN [ret |-> "false", out |-> out, frame |-> CleanFrame]
    ELSE LET chain == chain_from_b58_prefix(masterkey)
             d == dogecoin_hdnode_deserialize(masterkey, chain)
             pubckd == PubCkd(d.node)
             g == dogecoin_hd_generate_key(nodenew, derived_path, d.node, pubckd)
         IN  [ ret |-> IF d.ok /\ g.ok THEN "true" ELSE "false",
               \* lines 357-358: serialized whatever ret is
               out |-> SerializeOut(g.node, chain, outprivkey),
               \* node and nodenew go out of scope as they are
               frame |-> [CleanFrame EXCEPT !.node = d.node.private_key] ]

\* a private master node of key k and chain code c
MasterNode(k, c) ==
    dogecoin_hdnode_fill_public_key([ZeroNode EXCEPT !.private_key = k, !.chain_code = c])

\* extended keys a caller may hold: master keys of both chains, private and public
AllMasters ==
    { dogecoin_hdnode_serialize_private(MasterNode(k, 0), c) : k \in ValidKeys, c \in Chains }
    \cup { dogecoin_hdnode_serialize_public(MasterNode(k, 0), c) : k \in ValidKeys, c \in Chains }

\* an extended key with a character changed: the checksum no longer agrees
BadMaster ==
    [ dogecoin_hdnode_serialize_private(MasterNode(1, 0), dogecoin_chainparams_main)
        EXCEPT !.cks = Checksum(HDNodeData(MasterNode(2, 0), 0, FALSE)) ]

\* what a caller passes as masterkey: nothing, a damaged key, a text that is no
\* extended key, a master key
MasterArgs ==
    {Null, BadMaster, dogecoin_privkey_encode_wif(1, dogecoin_chainparams_main)}
    \cup AllMasters

PathArgs ==
    { Null, Path("", << >>), Path("m/", << >>),
      Path("m/", <<Step(0, FALSE)>>), Path("m/", <<Step(0, TRUE)>>),
      Path("m/", <<Step(0, FALSE), Step(1, TRUE)>>),
      Path("m/", <<Step(1, TRUE), Step(0, FALSE)>>),
      Path("m/", <<Step(1, FALSE), Step(0, FALSE)>>),
      Path("M/", <<Step(0, FALSE)>>),
      Path("m/", <<Step(0, FALSE), BadStep>>) }

GetDerivedHDAddressByPath ==
    /\ Idle
    /\ \E masterkey \in MasterArgs \cup {outaddress}, derived_path \in PathArgs,
          out_null \in BOOLEAN, outprivkey \in BOOLEAN, nodenew \in UninitNodes :
         LET r == getDerivedHDAddressByPath(masterkey, derived_path, outaddress,
                                            out_null, outprivkey, nodenew) IN
         /\ outaddress' = r.out
         /\ call' = [op |-> "getDerivedHDAddressByPath", masterkey |-> masterkey,
                     derived_path |-> derived_path, out_null |-> out_null,
                     outprivkey |-> outprivkey, ret |-> r.ret]
         /\ frame' = r.frame
    /\ UNCHANGED <<ndebug, draws, keypairVars, messageVars, derived_addr, masterVars>>

-----------------------------------------------------------------------------
(* getDerivedHDAddress, address.c 377-393                                  *)

\* sizeof(derived_path)
DERIVED_PATH_STRINGLEN == 33

\* line 384: "m/44'/3'/%u'/%u/%u"
Bip44Path(account, ischange, addressindex) ==
    Path("m/", << Step(44, TRUE), Step(3, TRUE), Step(account, TRUE),
                  Step(IF ischange THEN 1 ELSE 0, FALSE), Step(addressindex, FALSE) >>)

getDerivedHDAddress(masterkey, account, ischange, addressindex, out, out_null, outprivkey, nodenew) ==
    LET derived_path == Bip44Path(account, ischange, addressindex) IN
    IF masterkey = Null
    THEN [ret |-> "false", out |-> out, frame |-> CleanFrame]
    ELSE IF PathLen(derived_path) >= DERIVED_PATH_STRINGLEN
    THEN [ret |-> "false", out |-> out, frame |-> CleanFrame]
    ELSE getDerivedHDAddressByPath(masterkey, derived_path, out, out_null, outprivkey, nodenew)

\* a ten-digit index
BigIndex == 2147483647

AccountArgs == {0, BigIndex}

IndexArgs == {0, BigIndex}

GetDerivedHDAddress ==
    /\ Idle
    /\ \E masterkey \in MasterArgs, account \in AccountArgs, ischange \in BOOLEAN,
          addressindex \in IndexArgs,
          out_null \in BOOLEAN, outprivkey \in BOOLEAN, nodenew \in UninitNodes :
         LET r == getDerivedHDAddress(masterkey, account, ischange, addressindex,
                                      outaddress, out_null, outprivkey, nodenew) IN
         /\ outaddress' = r.out
         /\ call' = [op |-> "getDerivedHDAddress", masterkey |-> masterkey,
                     derived_path |-> Bip44Path(account, ischange, addressindex),
                     account |-> account, ischange |-> ischange,
                     addressindex |-> addressindex, out_null |-> out_null,
                     outprivkey |-> outprivkey, ret |-> r.ret]
         /\ frame' = r.frame
    /\ UNCHANGED <<ndebug, draws, keypairVars, messageVars, derived_addr, masterVars>>

-----------------------------------------------------------------------------
(* getDerivedHDAddressFromMnemonic, address.c 408-447                      *)

\* the passphrase dogecoin_seed_from_mnemonic uses: "" when none is given
LocalPassphrase(pass) == IF pass = Null THEN EmptyStr ELSE pass

\* the seed PBKDF2 makes of a mnemonic and a passphrase; never all zeros
SeedOf(mnemonic, pass) == Len(mnemonic.chars) + Len(LocalPassphrase(pass).chars) + 1

\* dogecoin_hdnode_from_seed: HMAC-SHA512("Dogecoin seed", seed), left half the
\* private key, right half the chain code; the chain code and the public key
\* stay zero when the left half is not a valid scalar
dogecoin_hdnode_from_seed(seed) ==
    LET l == seed % (OrderN + 1) IN
    IF dogecoin_privkey_is_valid(l)
    THEN dogecoin_hdnode_fill_public_key(
             [ZeroNode EXCEPT !.private_key = l, !.chain_code = seed % NumChainCodes])
    ELSE [ZeroNode EXCEPT !.private_key = l]

\* BIP44_COIN_TYPE, BIP44_COIN_TYPE_TEST
CoinType(is_testnet) == IF is_testnet THEN 1 ELSE 3

\* the key path derive_bip44_extended_private_key builds: down to the change
\* level, and one token more when it is given an address index
Bip44KeyPath(account, change_level, index, with_index, is_testnet) ==
    Path("m/", << Step(44, TRUE), Step(CoinType(is_testnet), TRUE), Step(account, TRUE),
                  Step(change_level, FALSE) >>
               \o (IF with_index THEN <<Step(index, FALSE)>> ELSE << >>))

\* derive_bip44_extended_private_key without a custom path
derive_bip44_extended_private_key(master_key, account, index, with_index, change_level, is_testnet, bip44_key) ==
    dogecoin_hd_generate_key(bip44_key,
        Bip44KeyPath(account, change_level, index, with_index, is_testnet),
        master_key, FALSE)

\* the call on a mnemonic that is present; seedok: dogecoin_seed_from_mnemonic
\* did not fail; out: the text in p2pkh_pubkey when the call returns
getDerivedHDAddressFromMnemonic(account, index, change_level, mnemonic, pass, out, is_testnet, seedok, bip44_key) ==
    LET seed == SeedOf(mnemonic, pass)
        node == dogecoin_hdnode_from_seed(seed)
        g1 == derive_bip44_extended_private_key(node, account, index, FALSE, change_level,
                                                is_testnet, bip44_key)
        g2 == derive_bip44_extended_private_key(node, account, index, TRUE, change_level,
                                                is_testnet, g1.node)
        \* seed and node go out of scope as they are
        left == [CleanFrame EXCEPT !.seed = seed, !.node = node.private_key]
    IN
    IF ~seedok THEN [ret |-> "-1", out |-> out, frame |-> CleanFrame]
    ELSE IF ~g1.ok \/ ~g2.ok THEN [ret |-> "-1", out |-> out, frame |-> left]
    ELSE [ret |-> "0",
          out |-> dogecoin_pubkey_getaddr_p2pkh(g2.node.public_key, ChainOf(is_testnet)),
          frame |-> left]

MnemonicArgs == {Null, Txt(<<"a">>), Txt(<<"a", "b">>), Txt(<<"a", "b", "c">>)}

PassArgs == {Null, Txt(<<"p">>)}

GetDerivedHDAddressFromMnemonic ==
    /\ Idle
    /\ \E account \in {0, 1}, index \in {0, 1}, change_level \in {0, 1},
          mnemonic \in MnemonicArgs, pass \in PassArgs, is_testnet \in BOOLEAN,
          seedok \in BOOLEAN, bip44_key \in UninitNodes :
         LET r == IF mnemonic = Null
                  THEN [ret |-> "-1", out |-> derived_addr, frame |-> CleanFrame]
                  ELSE getDerivedHDAddressFromMnemonic(account, index, change_level, mnemonic,
                           pass, derived_addr, is_testnet, seedok, bip44_key) IN
         /\ derived_addr' = r.out
         /\ call' = [op |-> "getDerivedHDAddressFromMnemonic", account |-> account,
                     index |-> index, change_level |-> change_level,
                     mnemonic |-> mnemonic, pass |-> pass, is_testnet |-> is_testnet,
                     ret |-> r.ret]
         /\ frame' = r.frame
    /\ UNCHANGED <<ndebug, draws, keypairVars, messageVars, outaddress, masterVars>>

-----------------------------------------------------------------------------
(* generateDerivedHDPubkey, address.c 176-208                              *)

\* dogecoin_hdnode_get_p2pkh_address: base58check(prefix, hash160 of the 33
\* bytes of public_key), whatever those bytes are
dogecoin_hdnode_get_p2pkh_address(node, chain) ==
    dogecoin_pubkey_getaddr_p2pkh(node.public_key, chain)

\* lines 194-207: the result of dogecoin_hdnode_deserialize is dropped, the
\* function returns true
DerivedPubkeyRet(ok) == "true"

\* the call; out is the text in p2pkh_pubkey when the call returns, wrote
\* whether the call wrote it
generateDerivedHDPubkey(wif_privkey_master, out, out_null) ==
    IF wif_privkey_master = Null
    THEN [ret |-> "false", out |-> out, wrote |-> FALSE]
    ELSE LET chain == chain_from_b58_prefix(wif_privkey_master)
             d == dogecoin_hdnode_deserialize(wif_privkey_master, chain)
             str == dogecoin_hdnode_get_p2pkh_address(d.node, chain)
         IN  [ ret |-> DerivedPubkeyRet(d.ok),
               out |-> IF out_null THEN out ELSE str,
               wrote |-> ~out_null ]

GenerateDerivedHDPubkey ==
    /\ Idle
    /\ \E wif_privkey_master \in MasterArgs \cup {hdkey}, out_null \in BOOLEAN :
         LET r == generateDerivedHDPubkey(wif_privkey_master, hdaddr, out_null) IN
         /\ hdaddr' = r.out
         /\ hdfrom' = IF r.wrote THEN NoSource ELSE hdfrom
         /\ call' = [op |-> "generateDerivedHDPubkey",
                     wif_privkey_master |-> wif_privkey_master, out_null |-> out_null,
                     wrote |-> r.wrote, ret |-> r.ret]
         \* dogecoin_hdnode_free zeroes the node before it frees it
         /\ frame' = CleanFrame
    /\ UNCHANGED <<ndebug, draws, keypairVars, messageVars, hdVars, hdkey>>

-----------------------------------------------------------------------------
(* generateHDMasterPubKeypair, address.c 130-163                           *)

\* hd_gen_master: the private form of a master node made from a random seed
hd_gen_master(chain, k, c) == dogecoin_hdnode_serialize_private(MasterNode(k, c), chain)

GenerateHDMasterPubKeypair ==
    /\ Idle
    /\ draws < MaxDraws
    /\ \E k \in ValidKeys, c \in ChainCodes, is_testnet \in BOOLEAN,
          wantKey \in BOOLEAN, wantAddr \in BOOLEAN :
         LET hd_privkey_master == hd_gen_master(ChainOf(is_testnet), k, c)
             r == generateDerivedHDPubkey(hd_privkey_master, EmptyStr, FALSE)
         IN
         /\ draws' = draws + 1
         /\ hdkey' = IF wantKey THEN hd_privkey_master ELSE hdkey
         /\ hdaddr' = IF wantAddr THEN r.out ELSE hdaddr
         /\ hdfrom' = NoSource
         /\ call' = [op |-> "generateHDMasterPubKeypair", is_testnet |-> is_testnet,
                     key_null |-> ~wantKey, addr_null |-> ~wantAddr, ret |-> r.ret]
         \* hd_privkey_master and hd_pubkey_master go out of scope as they are
         /\ frame' = [CleanFrame EXCEPT !.wifcopy = hd_privkey_master]
    /\ UNCHANGED <<ndebug, keypairVars, messageVars, hdVars>>

-----------------------------------------------------------------------------
(* verifyHDMasterPubKeypair, address.c 270-287                             *)

\* the call; line 279 drops the result of dogecoin_hdnode_deserialize, which
\* has zeroed the node on the stack before it fails
verifyHDMasterPubKeypair(wif_privkey_master, p2pkh_pubkey_master, is_testnet) ==
    IF wif_privkey_master = Null \/ p2pkh_pubkey_master = Null
    THEN [ret |-> "false", frame |-> CleanFrame]
    ELSE LET chain == ChainOf(is_testnet)
             d == dogecoin_hdnode_deserialize(wif_privkey_master, chain)
             new_p2pkh_pubkey_master == dogecoin_hdnode_get_p2pkh_address(d.node, chain)
         IN  [ ret |-> IF p2pkh_pubkey_master = new_p2pkh_pubkey_master
                       THEN "true" ELSE "false",
               \* node goes out of scope as it is
               frame |-> [CleanFrame EXCEPT !.node = d.node.private_key] ]

VerifyHDMasterPubKeypair ==
    /\ Idle
    /\ \E wif_privkey_master \in MasterArgs \cup {hdkey},
          p2pkh_pubkey_master \in {Null, hdaddr, ShortTxt} \cup AllAddrs,
          is_testnet \in BOOLEAN :
         LET r == verifyHDMasterPubKeypair(wif_privkey_master, p2pkh_pubkey_master,
                                           is_testnet) IN
         /\ call' = [op |-> "verifyHDMasterPubKeypair",
                     wif_privkey_master |-> wif_privkey_master,
                     p2pkh_pubkey_master |-> p2pkh_pubkey_master,
                     is_testnet |-> is_testnet, ret |-> r.ret]
         /\ frame' = r.frame
    /\ UNCHANGED <<ndebug, draws, keypairVars, messageVars, hdVars, masterVars>>

-----------------------------------------------------------------------------
(* verifyP2pkhAddress, address.c 298-320                                   *)

\* bytes lines 311-313 read of dec: 21 hashed, 4 compared
P2PKH_DECODED_LEN == 25

\* dogecoin_base58_decode_check(str, dec, len) is not zero: the buffer is at
\* least as long as the text and the checksum of the decoded bytes agrees
DecodeCheckFits(str, len) == B58CheckOk(str) /\ len >= strlen(str)

\* lines 311-313: the 4 bytes after the first 21 decoded bytes are the start
\* of the double SHA-256 of those 21; so they are when the payload is 21
\* bytes and its checksum follows, and for no other decoded text
ChecksumAt21(str) == str.data.len = 21

\* the call; overread is what reading past the len bytes of dec comes to when
\* dec is shorter than the 25 bytes read
verifyP2pkhAddress(p2pkh_pubkey, len, overread) ==
    IF p2pkh_pubkey = Null \/ len = 0 THEN "false"
    ELSE IF ~DecodeCheckFits(p2pkh_pubkey, len) THEN "false"
    ELSE IF len < P2PKH_DECODED_LEN THEN overread
    ELSE IF ChecksumAt21(p2pkh_pubkey) THEN "true"
    ELSE "false"

\* a base58check text of one payload byte
ShortB58 == dogecoin_base58_encode_check([len |-> 1, prefix |-> 30, body |-> 0])

\* what a caller passes as the address: nothing, the address or the key it
\* generated, texts that are not base 58, a short base58check text, an address with a
\* character changed, addresses and WIF keys of both chains
P2pkhArgs ==
    {Null, addr, wif, EmptyStr, ShortTxt, ShortB58}
    \cup AllAddrs \cup AllWifs
    \cup { [a EXCEPT !.cks = Checksum([a.data EXCEPT !.prefix = 0])] : a \in AllAddrs }

\* buffer lengths a caller passes: none, too short by one, the length of the
\* text, one more, ample
LenArgs(str) ==
    IF str = Null THEN {0, 1}
    ELSE {0, strlen(str) + 1, 200}
         \cup (IF strlen(str) > 0 THEN {strlen(str) - 1, strlen(str)} ELSE {})

VerifyP2pkhAddress ==
    /\ Idle
    /\ \E p2pkh_pubkey \in P2pkhArgs, overread \in {"false", "abort"} :
       \E len \in LenArgs(p2pkh_pubkey) :
         /\ call' = [op |-> "verifyP2pkhAddress", p2pkh_pubkey |-> p2pkh_pubkey,
                     len |-> len, ret |-> verifyP2pkhAddress(p2pkh_pubkey, len, overread)]
         /\ frame' = CleanFrame
    /\ UNCHANGED <<ndebug, draws, keypairVars, messageVars, hdVars, masterVars>>

-----------------------------------------------------------------------------
(* gen_privatekey of the tool, exercised by test_tool (lines 31-43 of the  *)
(* test); it encodes the drawn key as generatePrivPubKeypair does,         *)
(* address.c 87-91.                                                        *)

\* the secret prefix written in front of the key, were it the main chain's
\* whatever the chain
SecretPrefix_main(chain) == dogecoin_chainparams_main.b58prefix_secret_address

\* pkeybase58c[0] = chain->b58prefix_secret_address
SecretPrefix(chain) == chain.b58prefix_secret_address

\* the WIF text and, when the caller passed a buffer for it, the hexadecimal
\* text of the key the RNG produced
gen_privatekey(chain, k, hex_null) ==
    [ privkey_wif |-> dogecoin_base58_encode_check(
                          [len |-> 34, prefix |-> SecretPrefix(chain),
                           body |-> [key |-> k, comp |-> 1]]),
      privkey_hex_or_null |-> IF hex_null THEN Null ELSE Hex(k),
      ret |-> "true" ]

\* the caller passes the same buffer every time, as the test does; before is
\* the text the buffer held when the call was made
GenPrivatekey ==
    /\ Idle
    /\ draws < MaxDraws
    /\ \E k \in ValidKeys, chain \in Chains, hex_null \in BOOLEAN :
         LET r == gen_privatekey(chain, k, hex_null) IN
         /\ draws' = draws + 1
         /\ wif' = r.privkey_wif
         /\ pairWhole' = FALSE
         /\ call' = [op |-> "gen_privatekey", chain |-> chain, before |-> wif,
                     privkey_wif |-> r.privkey_wif,
                     privkey_hex_or_null |-> r.privkey_hex_or_null, ret |-> r.ret]
         /\ frame' = CleanFrame
    /\ UNCHANGED <<ndebug, addr, genNet, messageVars, hdVars, masterVars>>

-----------------------------------------------------------------------------
(* generateHDMasterPubKeypairFromMnemonic, address.c 460-489, and          *)
(* verifyHDMasterPubKeypairFromMnemonic, address.c 502-543                 *)

\* lines 480-486 and 517-534: the root node of the seed, its private form and
\* its address; the result of dogecoin_hdnode_from_seed is not looked at
MasterFromMnemonic(mnemonic, pass, is_testnet) ==
    LET seed == SeedOf(mnemonic, pass)
        node == dogecoin_hdnode_from_seed(seed)
        chain == ChainOf(is_testnet)
    IN  [ key |-> dogecoin_hdnode_serialize_private(node, chain),
          address |-> dogecoin_hdnode_get_p2pkh_address(node, chain),
          \* seed and node go out of scope as they are
          frame |-> [CleanFrame EXCEPT !.seed = seed, !.node = node.private_key] ]

\* the seed gives a valid master key: what dogecoin_hdnode_from_seed returns
SeedGivesMaster(mnemonic, pass) ==
    dogecoin_privkey_is_valid(dogecoin_hdnode_from_seed(SeedOf(mnemonic, pass)).private_key)

\* key, address: the texts in the caller's buffers when the call returns
generateHDMasterPubKeypairFromMnemonic(key, address, mnemonic, pass, is_testnet, seedok) ==
    IF mnemonic = Null \/ ~seedok
    THEN [ret |-> "-1", key |-> key, address |-> address, wrote |-> FALSE, frame |-> CleanFrame]
    ELSE LET m == MasterFromMnemonic(mnemonic, pass, is_testnet) IN
         [ret |-> "0", key |-> m.key, address |-> m.address, wrote |-> TRUE, frame |-> m.frame]

\* lines 529 and 538: strcmp of the caller's text with the calculated one;
\* strcmp reads through a NULL pointer when the caller passed none
verifyHDMasterPubKeypairFromMnemonic(wif_privkey_master, p2pkh_pubkey_master, mnemonic, pass, is_testnet, seedok) ==
    IF mnemonic = Null \/ ~seedok
    THEN [ret |-> "-1", frame |-> CleanFrame]
    ELSE LET m == MasterFromMnemonic(mnemonic, pass, is_testnet) IN
         [ ret |-> IF wif_privkey_master = Null THEN "segv"
                   ELSE IF wif_privkey_master # m.key THEN "-1"
                   ELSE IF p2pkh_pubkey_master = Null THEN "segv"
                   ELSE IF p2pkh_pubkey_master # m.address THEN "-1"
                   ELSE "0",
           frame |-> m.frame ]

GenerateHDMasterPubKeypairFromMnemonic ==
    /\ Idle
    /\ \E mnemonic \in MnemonicArgs, pass \in PassArgs, is_testnet \in BOOLEAN,
          seedok \in BOOLEAN :
         LET r == generateHDMasterPubKeypairFromMnemonic(hdkey, hdaddr, mnemonic, pass,
                                                         is_testnet, seedok) IN
         /\ hdkey' = r.key
         /\ hdaddr' = r.address
         /\ hdfrom' = IF r.wrote
                       THEN [mnemonic |-> mnemonic, pass |-> pass, is_testnet |-> is_testnet]
                       ELSE hdfrom
         /\ call' = [op |-> "generateHDMasterPubKeypairFromMnemonic",
                     mnemonic |-> mnemonic, pass |-> pass, is_testnet |-> is_testnet,
                     seedok |-> seedok, ret |-> r.ret]
         /\ frame' = r.frame
    /\ UNCHANGED <<ndebug, draws, keypairVars, messageVars, hdVars>>

\* a master key and an address of another mnemonic
OtherMaster == MasterFromMnemonic(Txt(<<"a">>), Null, FALSE)

VerifyHDMasterPubKeypairFromMnemonic ==
    /\ Idle
    /\ \E wif_privkey_master \in {Null, hdkey, OtherMaster.key},
          p2pkh_pubkey_master \in {Null, hdaddr, OtherMaster.address},
          mnemonic \in MnemonicArgs, pass \in PassArgs, is_testnet \in BOOLEAN,
          seedok \in BOOLEAN :
         LET r == verifyHDMasterPubKeypairFromMnemonic(wif_privkey_master,
                      p2pkh_pubkey_master, mnemonic, pass, is_testnet, seedok) IN
         /\ call' = [op |-> "verifyHDMasterPubKeypairFromMnemonic",
                     wif_privkey_master |-> wif_privkey_master,
                     p2pkh_pubkey_master |-> p2pkh_pubkey_master,
                     mnemonic |-> mnemonic, pass |-> pass, is_testnet |-> is_testnet,
                     seedok |-> seedok, ret |-> r.ret]
         /\ frame' = r.frame
    /\ UNCHANGED <<ndebug, draws, keypairVars, messageVars, hdVars, masterVars>>

-----------------------------------------------------------------------------

Init ==
    /\ ndebug \in BOOLEAN
    /\ draws = 0
    /\ wif = EmptyStr
    /\ addr = EmptyStr
    /\ genNet = FALSE
    /\ pairWhole = FALSE
    /\ privhex = EmptyStr
    /\ sig = Null
    /\ signed = [key |-> 0, msg |-> << >>]
    /\ outaddress = EmptyStr
    /\ derived_addr = EmptyStr
    /\ hdkey = EmptyStr
    /\ hdaddr = EmptyStr
    /\ hdfrom = NoSource
    /\ call = NoCall
    /\ frame = CleanFrame

Next ==
    \/ GeneratePrivPubKeypair
    \/ VerifyPrivPubKeypair
    \/ SignMsgWithPrivateKey
    \/ VerifyMessage
    \/ AddressFromPrivkey
    \/ GetDerivedHDAddressByPath
    \/ GetDerivedHDAddress
    \/ GetDerivedHDAddressFromMnemonic
    \/ GenerateHDMasterPubKeypair
    \/ GenerateDerivedHDPubkey
    \/ VerifyHDMasterPubKeypair
    \/ VerifyP2pkhAddress
    \/ GenPrivatekey
    \/ GenerateHDMasterPubKeypairFromMnemonic
    \/ VerifyHDMasterPubKeypairFromMnemonic
    \/ Resume

Spec == Init /\ [][Next]_vars

\* key pair generation and verification
NextKeypair ==
    \/ GeneratePrivPubKeypair
    \/ VerifyPrivPubKeypair
    \/ Resume

SpecKeypair == Init /\ [][NextKeypair]_vars

\* message signing and verification
NextMessage ==
    \/ SignMsgWithPrivateKey
    \/ VerifyMessage
    \/ Resume

SpecMessage == Init /\ [][NextMessage]_vars

\* the calls that take a private key in hexadecimal
NextPrivkey ==
    \/ SignMsgWithPrivateKey
    \/ AddressFromPrivkey
    \/ Resume

SpecPrivkey == Init /\ [][NextPrivkey]_vars

\* derivation of hierarchical deterministic keys
NextHD ==
    \/ GetDerivedHDAddressByPath
    \/ GetDerivedHDAddress
    \/ Resume

SpecHD == Init /\ [][NextHD]_vars

\* derivation of an address from a mnemonic
NextMnemonic ==
    \/ GetDerivedHDAddressFromMnemonic
    \/ Resume

SpecMnemonic == Init /\ [][NextMnemonic]_vars

\* HD master keys and their addresses
NextMaster ==
    \/ GenerateHDMasterPubKeypair
    \/ GenerateDerivedHDPubkey
    \/ VerifyHDMasterPubKeypair
    \/ Resume

SpecMaster == Init /\ [][NextMaster]_vars

\* a master key from a mnemonic and its verification
NextMnemonicMaster ==
    \/ GenerateHDMasterPubKeypairFromMnemonic
    \/ VerifyHDMasterPubKeypairFromMnemonic
    \/ Resume

SpecMnemonicMaster == Init /\ [][NextMnemonicMaster]_vars

\* generation of a key and the check of an address
NextAddress ==
    \/ GenPrivatekey
    \/ VerifyP2pkhAddress
    \/ Resume

SpecAddress == Init /\ [][NextAddress]_vars

-----------------------------------------------------------------------------
(* Message signing and verification.                                       *)

\* the P2PKH address of the public key of scalar k on the main chain
MainAddrOf(k) == dogecoin_pubkey_getaddr_p2pkh(PubOfKey(k), dogecoin_chainparams_main)

\* the caller verifies, with the signer's own address and the signed message,
\* the signature signmsgwithprivatekey returned to it
RoundTripCall ==
    /\ call.op = "verifymessage"
    /\ sig # Null
    /\ call.sig = sig
    /\ call.msg = Txt(signed.msg)
    /\ call.address = MainAddrOf(signed.key)

\* C1: for every valid private key k and message m, verifymessage of the main
\* P2PKH address of k's public key, the signature signmsgwithprivatekey(k, m)
\* returned and m returns true, whatever the recovery id of that signature is
C1_SignVerifyRoundTrip == RoundTripCall => call.ret = "true"

\* a round trip over a signature whose recovery id is 1
C1_RecidOneRoundTrip ==
    RoundTripCall /\ RecidOf(signed.key, dogecoin_dblhash(signed.msg)) = 1

\* the text signmsgwithprivatekey returns for key k and message m
SignatureOf(k, m) == b64_encode(dogecoin_key_sign_hash(k, dogecoin_dblhash(m.chars)))

\* a verifymessage call that was given all three arguments
VerifyCallWithInputs ==
    /\ call.op = "verifymessage"
    /\ call.address # Null
    /\ call.sig # Null
    /\ call.msg # Null

C3_SignatureIsCompact65 ==
    (call.op = "signmsgwithprivatekey" /\ call.ret = "ptr") =>
        call.out = b64_encode(Compact65(27 + call.recid + 4,
                                        EcdsaSig(call.key, call.digest, FALSE)))

\* a call that hashed the message it was given
HashedCall ==
    \/ /\ call.op = "signmsgwithprivatekey"
       /\ call.privkey # Null
       /\ call.msg # Null
    \/ /\ call.op = "verifymessage"
       /\ call.msg # Null
       /\ call.hashed

C5_VerifyFailsUniformly ==
    call.op = "verifymessage" =>
      /\ call.ret \in {"true", "false"}
      /\ (call.address = Null \/ call.sig = Null \/ call.msg = Null)
           => call.ret = "false"

\* C6: addressFromPrivkey leaves the caller's private-key text as it was and
\* returns the main-chain P2PKH address of the public key of that key
C6_AddressFromPrivkeyPure ==
    (call.op = "addressFromPrivkey" /\ call.privkey \in { Hex(k) : k \in ValidKeys }) =>
      /\ call.ret = "ptr"
      /\ privhex = call.privkey
      /\ call.out = MainAddrOf(call.privkey.val)

-----------------------------------------------------------------------------
(* Key pairs.                                                              *)

\* the caller verifies the pair one generatePrivPubKeypair call wrote, on the
\* network it was generated for
PairRoundTripCall ==
    /\ call.op = "verifyPrivPubKeypair"
    /\ pairWhole
    /\ call.wif_privkey = wif
    /\ call.p2pkh_pubkey = addr
    /\ call.is_testnet = genNet

\* C7: for each network flag, the (wif_privkey, p2pkh_pubkey) pair written by
\* generatePrivPubKeypair is accepted by verifyPrivPubKeypair with that flag
C7_KeypairRoundTrip == PairRoundTripCall => call.ret = "true"

\* a pair generated for the test network has been verified on it
C7_TestnetPairVerified == PairRoundTripCall /\ genNet /\ call.ret = "true"

\* C8: verifyPrivPubKeypair returns true only if the WIF text base58check-decodes
\* with the secret prefix of the selected chain to a valid private key and the
\* address is the P2PKH address of its public key on that chain; a WIF with a
\* character changed, a WIF of the other network, another address and a NULL
\* argument are answered false
C8_VerifyKeypairSound ==
    call.op = "verifyPrivPubKeypair" =>
      LET w == call.wif_privkey
          a == call.p2pkh_pubkey
          chain == ChainOf(call.is_testnet)
          other == ChainOf(~call.is_testnet)
      IN
      /\ call.ret \in {"true", "false"}
      /\ call.ret = "true" =>
           /\ w # Null /\ a # Null
           /\ B58CheckOk(w)
           /\ w.data.len = 34
           /\ w.data.prefix = chain.b58prefix_secret_address
           /\ dogecoin_privkey_is_valid(w.data.body.key)
           /\ a = dogecoin_pubkey_getaddr_p2pkh(PubOfKey(w.data.body.key), chain)
      /\ (w = Null \/ a = Null) => call.ret = "false"
      /\ w \in FlipChar(wif) => call.ret = "false"
      /\ w \in { dogecoin_privkey_encode_wif(k, other) : k \in KeyBytes } => call.ret = "false"
      /\ \A k \in ValidKeys :
           (w = dogecoin_privkey_encode_wif(k, chain)
            /\ a # dogecoin_pubkey_getaddr_p2pkh(PubOfKey(k), chain)) => call.ret = "false"

\* the generated WIF with one character changed has been refused for the
\* generated address
C8_FlippedWifRefused ==
    /\ call.op = "verifyPrivPubKeypair"
    /\ pairWhole
    /\ call.wif_privkey \in FlipChar(wif)
    /\ call.p2pkh_pubkey = addr
    /\ call.is_testnet = genNet
    /\ call.ret = "false"

\* C9: when verifyPrivPubKeypair, signmsgwithprivatekey, addressFromPrivkey or a
\* mnemonic operation returns, by whatever path, every secret the call held
\* has been overwritten with zeros
C9_SecretsWiped ==
    ( /\ call.op \in {"verifyPrivPubKeypair", "signmsgwithprivatekey",
                      "addressFromPrivkey", "getDerivedHDAddressFromMnemonic"}
      /\ call.ret \notin {"abort", "segv"} )
    => frame = CleanFrame

-----------------------------------------------------------------------------
(* Derivation of hierarchical deterministic keys.                          *)

\* the text is a well-formed extended public key of one of the two chains
PublicOnly(str) ==
    /\ B58CheckOk(str)
    /\ str.data.len = 78
    /\ str.data.prefix \in { c.b58prefix_bip32_pubkey : c \in Chains }

\* the key path has a token with a prime mark
HasHardened(keypath) ==
    /\ keypath # Null
    /\ \E i \in DOMAIN keypath.steps : keypath.steps[i].prime

ExtendedKeyOf(str, chain) ==
    /\ B58CheckOk(str)
    /\ str.data.len = 78
    /\ str.data.prefix \in {chain.b58prefix_bip32_privkey, chain.b58prefix_bip32_pubkey}

\* C11: the path getDerivedHDAddress derives is
\* m/44'/coin_type'/account'/change/index with coin_type 3 for a main-chain
\* masterkey and 1 for a test-chain masterkey, the path
\* getDerivedHDAddressFromMnemonic uses for that chain, account, change and index
C11_Bip44PathFollowsChain ==
    \A is_testnet \in BOOLEAN :
      ( /\ call.op = "getDerivedHDAddress"
        /\ ExtendedKeyOf(call.masterkey, ChainOf(is_testnet)) )
      => call.derived_path =
           Bip44KeyPath(call.account, IF call.ischange THEN 1 ELSE 0,
                        call.addressindex, TRUE, is_testnet)

\* the text is a well-formed extended private key of one of the two chains,
\* and the key in it is a valid scalar
PrivateMaster(str) ==
    /\ B58CheckOk(str)
    /\ str.data.len = 78
    /\ str.data.prefix \in { c.b58prefix_bip32_privkey : c \in Chains }
    /\ dogecoin_privkey_is_valid(str.data.body.keydata.priv)

\* the chain whose extended-key magic the text starts with
ChainOfMagic(str) ==
    CHOOSE c \in Chains :
        str.data.prefix \in {c.b58prefix_bip32_privkey, c.b58prefix_bip32_pubkey}

\* a successful getDerivedHDAddressByPath call on an extended private key
\* that asked for the public form
NeuteredCall ==
    /\ call.op = "getDerivedHDAddressByPath"
    /\ call.ret = "true"
    /\ PrivateMaster(call.masterkey)
    /\ ~call.outprivkey

\* C12: for a private masterkey and a path that derives, the text written
\* with outprivkey = false is the public form of the node written with
\* outprivkey = true: same depth, child number, fingerprint and chain code,
\* the public key of that node's private key, the public magic of the
\* masterkey's chain
C12_PublicFormOfSameNode ==
    NeuteredCall =>
      \A nodenew \in UninitNodes :
        LET priv == getDerivedHDAddressByPath(call.masterkey, call.derived_path,
                                              EmptyStr, FALSE, TRUE, nodenew)
            a == outaddress.data.body
            b == priv.out.data.body
        IN
        /\ priv.ret = "true"
        /\ priv.out.data.prefix = ChainOfMagic(call.masterkey).b58prefix_bip32_privkey
        /\ B58CheckOk(outaddress)
        /\ outaddress.data.len = 78
        /\ outaddress.data.prefix = ChainOfMagic(call.masterkey).b58prefix_bip32_pubkey
        /\ a.depth = b.depth
        /\ a.child_num = b.child_num
        /\ a.fingerprint = b.fingerprint
        /\ a.chain_code = b.chain_code
        /\ dogecoin_privkey_is_valid(b.keydata.priv)
        /\ a.keydata = [pub |-> PubOfKey(b.keydata.priv)]

\* the public form of a node two steps below a private master key has been
\* written
C12_NeuteredGrandchild ==
    /\ NeuteredCall
    /\ Len(call.derived_path.steps) = 2
    /\ outaddress.data.body.depth = 2

-----------------------------------------------------------------------------
(* HD master keys.                                                         *)

\* the text is a well-formed extended key of one of the two chains
ExtendedKey(str) == \E c \in Chains : ExtendedKeyOf(str, c)

\* C13: generateDerivedHDPubkey returns 0 and writes no address when the
\* master key is NULL, and when it is not a well-formed extended key of a
\* chain (unrecognized magic, bad base58, bad checksum, wrong length)
C13_DerivedPubkeyFailsOnBadKey ==
    ( /\ call.op = "generateDerivedHDPubkey"
      /\ (call.wif_privkey_master = Null \/ ~ExtendedKey(call.wif_privkey_master)) )
    => (call.ret = "false" /\ ~call.wrote)

\* C14: verifyHDMasterPubKeypair returns 1 only if the key text deserializes
\* as an extended key of the selected network and the address is the P2PKH
\* address of that node on that network; a key of the other network, a key
\* that does not deserialize and another address are answered 0
C14_VerifyMasterSound ==
    call.op = "verifyHDMasterPubKeypair" =>
      LET key == call.wif_privkey_master
          chain == ChainOf(call.is_testnet)
      IN
      /\ call.ret = "true" =>
           /\ key # Null
           /\ ExtendedKeyOf(key, chain)
           /\ call.p2pkh_pubkey_master =
                dogecoin_hdnode_get_p2pkh_address(
                    dogecoin_hdnode_deserialize(key, chain).node, chain)
      /\ (key = Null \/ ~ExtendedKeyOf(key, chain)) => call.ret = "false"

-----------------------------------------------------------------------------
(* Depth of derived keys.                                                  *)

\* a successful getDerivedHDAddressByPath call
DerivedCall ==
    /\ call.op = "getDerivedHDAddressByPath"
    /\ call.ret = "true"

\* C15 as written: the key written by a successful getDerivedHDAddressByPath
\* has the depth of the masterkey plus the number of steps of the path, and
\* for a path without steps the masterkey's depth, child number and fingerprint
C15_DepthAddsToMaster ==
    DerivedCall =>
      LET m == call.masterkey.data.body
          o == outaddress.data.body
          n == Len(call.derived_path.steps)
      IN
      /\ o.depth = m.depth + n
      /\ n = 0 => (o.child_num = m.child_num /\ o.fingerprint = m.fingerprint)

\* C15, amended: the key written by a successful getDerivedHDAddressByPath has
\* as depth the number of steps of the path, whatever the depth of the
\* masterkey; for a path without steps it has depth 0, child number 0 and a
\* zero fingerprint; otherwise its child number is the last step of the path
C15_DepthIsPathLength ==
    DerivedCall =>
      LET o == outaddress.data.body
          steps == call.derived_path.steps
          n == Len(steps)
      IN
      /\ o.depth = n
      /\ n = 0 => (o.child_num = ChildNum(0, FALSE) /\ o.fingerprint = ZeroFingerprint)
      /\ n > 0 => o.child_num = ChildNum(steps[n].idx, steps[n].prime)

\* a key one step below a masterkey of depth 1 has been written
C15_ChildOfDerivedKey ==
    /\ DerivedCall
    /\ call.masterkey.data.body.depth = 1
    /\ Len(call.derived_path.steps) = 1
    /\ outaddress.data.body.depth = 1

-----------------------------------------------------------------------------
(* Addresses.                                                              *)

\* C16: verifyP2pkhAddress checks the checksum only: it returns true exactly
\* when addr is not NULL, len is not zero and at least the length of the
\* text, and addr decodes to 21 payload bytes followed by their checksum,
\* whatever the prefix byte is; in every other case it returns false
C16_ChecksumOnly ==
    call.op = "verifyP2pkhAddress" =>
      LET a == call.p2pkh_pubkey
          good == /\ a # Null
                  /\ call.len # 0
                  /\ call.len >= strlen(a)
                  /\ B58CheckOk(a)
                  /\ a.data.len = 21
      IN  call.ret = IF good THEN "true" ELSE "false"

\* a call of gen_privatekey that filled both buffers
GenCall == call.op = "gen_privatekey" /\ call.privkey_hex_or_null # Null

\* the second of two successive calls of gen_privatekey
SecondGenCall == call.op = "gen_privatekey" /\ call.before # EmptyStr

-----------------------------------------------------------------------------
(* Master keys from mnemonics.                                             *)

\* a call of one of the two mnemonic master key functions with a mnemonic
MnemonicMasterCall ==
    /\ call.op \in {"generateHDMasterPubKeypairFromMnemonic",
                    "verifyHDMasterPubKeypairFromMnemonic"}
    /\ call.mnemonic # Null

\* a verification whose seed was produced, of texts the caller holds, after
\* a generation from a mnemonic filled the buffers
VerifyAfterGenerate ==
    /\ call.op = "verifyHDMasterPubKeypairFromMnemonic"
    /\ call.mnemonic # Null /\ call.seedok
    /\ call.wif_privkey_master # Null /\ call.p2pkh_pubkey_master # Null
    /\ hdfrom # NoSource

\* the verification uses the mnemonic, passphrase and network of the generation
SameSource ==
    /\ call.mnemonic = hdfrom.mnemonic
    /\ LocalPassphrase(call.pass) = LocalPassphrase(hdfrom.pass)
    /\ call.is_testnet = hdfrom.is_testnet

\* C18: what generateHDMasterPubKeypairFromMnemonic wrote verifies with the
\* same mnemonic, passphrase and network; the verification returns -1 when
\* the key, the address, the passphrase or the network differs; both
\* functions return -1 when the seed cannot be produced or does not give a
\* valid master key
C18_MnemonicRoundTrip ==
    /\ VerifyAfterGenerate /\ SameSource
          /\ call.wif_privkey_master = hdkey /\ call.p2pkh_pubkey_master = hdaddr
          => call.ret = "0"
    /\ VerifyAfterGenerate /\ call.mnemonic = hdfrom.mnemonic
          /\ \/ /\ SameSource
                /\ call.wif_privkey_master # hdkey \/ call.p2pkh_pubkey_master # hdaddr
             \/ /\ call.wif_privkey_master = hdkey /\ call.p2pkh_pubkey_master = hdaddr
                /\ ~SameSource
          => call.ret = "-1"
    /\ MnemonicMasterCall /\ (~call.seedok \/ ~SeedGivesMaster(call.mnemonic, call.pass))
          => call.ret = "-1"

-----------------------------------------------------------------------------
(* Failed and public-only derivations.                                     *)

\* C19: whenever getDerivedHDAddressByPath returns false (missing input,
\* masterkey that fails to deserialize, path that fails to derive) it leaves
\* outaddress unchanged
C19_FailureLeavesOutaddress ==
    [][ (call'.op = "getDerivedHDAddressByPath" /\ call'.ret = "false")
            => outaddress' = outaddress ]_vars

\* C20: getDerivedHDAddressByPath never reports success with a private
\* extended key that was not derived from private key material: with a
\* public-only masterkey and outprivkey true it returns false for every path
C20_NoPrivateFromPublic ==
    (/\ call.op = "getDerivedHDAddressByPath"
     /\ PublicOnly(call.masterkey)
     /\ call.outprivkey)
        => call.ret = "false"

====
